---- MODULE Spec2Model ----
(***************************************************************************)
(* The autoencoder notebook deeplearning/TF-Nengo-Autoencoders.ipynb as a  *)
(* state machine: the network definition cell, the training cell (its      *)
(* LOADING branch with the parameter download, and its training loops),    *)
(* and the plot cell.  The notebook user may run the training cell again;  *)
(* the file system persists between runs, the Python variables of the cell *)
(* are set again by its first lines.                                       *)
(*                                                                         *)
(* Time is counted in simulator timesteps (dt = 0.001 s), so that          *)
(* 0.001*steps seconds are `steps' timesteps.  An image of the training    *)
(* set is represented by its index into mnist.train.images, a tensor by    *)
(* its width.                                                              *)
(***************************************************************************)
EXTENDS Integers, Sequences, FiniteSets, TLC

\* ---------------------------------------------------------------- constants
n_hidden_1 == 256
n_hidden_2 == 128
n_input == 784
ImgSide == 28
n_examples == 64
TrainSize == 55000
steps == 10
repetitions == 15

\* number of times the notebook user runs the training cell
MaxRuns == 2

\* faulty variant of n_iters: the quotient rounded up
n_iters_ceil == (TrainSize + n_examples - 1) \div n_examples

\* int(55000/(n_examples)): int() truncates the positive quotient
n_iters == TrainSize \div n_examples

\* width of one MNIST image (28*28 pixels, flattened)
ImageWidth == ImgSide * ImgSide

VARIABLES
    LOADING,      \* the flag of the first cell
    pc,           \* position of the notebook execution
    dirNode,      \* what the path "nengo_autoencoder" is: "absent", "dir", "file"
    indexFile,    \* nengo_autoencoder/Nengo-Autoencoder.index exists
    zipFile,      \* nengo_autoencoder/nengo-autoencoder-params.zip exists
    net,          \* the nengo.Network of the definition cell
    graph,        \* per TensorNode: the dense layers its callable created when
                  \* the Simulator was built, and the width it returned
    params,       \* parameters of the simulator: train steps applied, checkpoint loaded
    losses,       \* the list `losses'
    counted,      \* the variable `counted'
    e,            \* next value of the outer loop variable
    i,            \* next value of the inner loop variable
    input_dict,   \* the batch bound to input_dict / output_dict
    sim_data,     \* probe data: one entry per completed sim.run, `steps' rows each
    plotted,      \* rows of sim.data read by the plot cell, one per column
    calls,        \* history: number of calls of each external operation in this run
    lastTrain,    \* history: arguments of the latest sim.train call of this run
    trainedRep,   \* history: images passed to sim.train in the current repetition
    failedAt,     \* step whose exception ended this run, or "none"
    runNo,        \* number of the current run of the training cell
    history       \* history: summaries of the earlier runs of the training cell

vars == <<LOADING, pc, dirNode, indexFile, zipFile, net, graph, params, losses,
          counted, e, i, input_dict, sim_data, plotted, calls, lastTrain,
          trainedRep, failedAt, runNo, history>>

fsVars == <<dirNode, indexFile, zipFile>>
loopVars == <<e, i>>

\* ------------------------------------------------------------ network cell
\* tf.contrib.layers.fully_connected(x, num_outputs): a dense layer from the
\* width of x to num_outputs
fully_connected(x, num_outputs) == [size_in |-> x, size_out |-> num_outputs]

\* faulty variant of Encoder.__call__: the two widths exchanged
Encoder_call_swapped(x) ==
    LET dense1 == fully_connected(x, n_hidden_2)
        dense2 == fully_connected(dense1.size_out, n_hidden_1)
    IN  [layers |-> <<dense1, dense2>>, out |-> dense2.size_out]

\* Encoder.__call__(t, x): the layers it creates and the width it returns
Encoder_call(x) ==
    LET dense1 == fully_connected(x, n_hidden_1)
        dense2 == fully_connected(dense1.size_out, n_hidden_2)
    IN  [layers |-> <<dense1, dense2>>, out |-> dense2.size_out]

\* Decoder.__call__(t, x) with self.size_out set by pre_build
Decoder_call(x, size_out) ==
    LET dense1 == fully_connected(x, n_hidden_1)
        dense2 == fully_connected(dense1.size_out, size_out)
    IN  [layers |-> <<dense1, dense2>>, out |-> dense2.size_out]

NoNet == [nodes |-> <<>>, connections |-> {}, probes |-> {}]

\* with nengo.Network() as net: ...
TheNet ==
    [nodes |-> [inp       |-> [size_in |-> 0, size_out |-> ImageWidth],
                tf_encode |-> [size_in |-> ImgSide * ImgSide, size_out |-> n_hidden_2],
                tf_decode |-> [size_in |-> n_hidden_2, size_out |-> n_input]],
     connections |-> {<<"inp", "tf_encode">>, <<"tf_encode", "tf_decode">>},
     probes |-> {"inp", "tf_decode"}]

NoGraph == [tf_encode |-> [layers |-> <<>>, out |-> 0],
            tf_decode |-> [layers |-> <<>>, out |-> 0]]

\* nengo_dl.Simulator(net, ...) builds each TensorNode: pre_build with the
\* node's shapes, then __call__ on a tensor of width size_in
BuildGraph(n) ==
    LET enc == Encoder_call(n.nodes.tf_encode.size_in)
        dec == Decoder_call(n.nodes.tf_decode.size_in, n.nodes.tf_decode.size_out)
    IN  [tf_encode |-> enc, tf_decode |-> dec]

\* ------------------------------------------------------------------ gen_data
\* nengo.processes.PresentInput(inputs, presentation_time) shows
\* inputs[k % len(inputs)] at timestep t (1-based), with
\* k = int((t - dt) / presentation_time): the values of k met in a run of
\* nsteps timesteps when an input is presented for `presentation' timesteps
PresentedIndex[presentation \in 1..steps, nsteps \in 1..steps] ==
    {(t - 1) \div presentation : t \in 1..nsteps}

\* PresentInput(mnist.train.images[offset:], presentation).run(nsteps): the
\* images presented, as indices into mnist.train.images.  An empty slice
\* has nothing to show; the index offset (past the end) stands for that read.
PresentInput_run(offset, presentation, nsteps) ==
    LET n == TrainSize - offset
    IN  {IF n > 0 THEN offset + (k % n) ELSE offset :
            k \in PresentedIndex[presentation, nsteps]}

\* faulty variant of gen_data: every image presented for one timestep
\* (0.001 instead of 0.001*steps)
gen_data_short(steps_, batchsize, pos) ==
    [k \in 0..(batchsize - 1) |-> PresentInput_run(pos + k, 1, steps_)]

\* gen_data(steps, batchsize, pos): input_array, element k being the images
\* presented during the `steps' timesteps of .run(0.001*steps)
gen_data(steps_, batchsize, pos) ==
    [k \in 0..(batchsize - 1) |-> PresentInput_run(pos + k, steps_, steps_)]

\* the images a batch holds
Images(batch) == UNION {batch[k] : k \in DOMAIN batch}

NoBatch == [k \in {} |-> {}]

\* ------------------------------------------------------------- history sets
\* a set of images kept as a set of intervals <<lo, hi>>
InTrained(x, T) == \E iv \in T : iv[1] <= x /\ x <= iv[2]

\* T with the images of B added
AddBatch(T, B) ==
    LET n == Cardinality(B)
    IN  IF T = {} /\ n > 0 /\ B = 0..(n - 1)
        THEN {<<0, n - 1>>}
        ELSE IF \E iv \in T : B = (iv[2] + 1)..(iv[2] + n)
        THEN LET iv == CHOOSE v \in T : B = (v[2] + 1)..(v[2] + n)
             IN  (T \ {iv}) \cup {<<iv[1], iv[2] + n>>}
        ELSE T \cup {<<x, x>> : x \in B}

NoCalls == [loss |-> 0, run |-> 0, train |-> 0, urlretrieve |-> 0,
            extractall |-> 0, remove |-> 0, load_params |-> 0, mkdir |-> 0]

NoTrain == [e |-> -1, i |-> -1, batch |-> NoBatch, before |-> {}]

Called(op) == [calls EXCEPT ![op] = @ + 1]

\* sim.loss(input_dict, output_dict, 'mse'): the loss is a function of the
\* batch and of the parameters it is evaluated with
sim_loss(batch) == [batch |-> batch, params |-> params]

\* sim.run(0.001*steps): `steps' more rows of probe data
sim_run == [rows |-> steps, params |-> params, after_losses |-> Len(losses)]

\* ---------------------------------------------------------------------- Init
Init ==
    /\ LOADING \in BOOLEAN
    /\ pc = "net"
    /\ dirNode \in {"absent", "dir", "file"}
    /\ indexFile \in BOOLEAN
    /\ zipFile \in BOOLEAN
    /\ (dirNode # "dir" => ~indexFile /\ ~zipFile)
    /\ net = NoNet
    /\ graph = NoGraph
    /\ params = [train |-> 0, loaded |-> FALSE]
    /\ losses = <<>>
    /\ counted = 0
    /\ e = 0
    /\ i = 0
    /\ input_dict = NoBatch
    /\ sim_data = <<>>
    /\ plotted = <<>>
    /\ calls = NoCalls
    /\ lastTrain = NoTrain
    /\ trainedRep = {}
    /\ failedAt = "none"
    /\ runNo = 1
    /\ history = <<>>

\* ------------------------------------------------------------------- actions
\* the network definition cell
BuildNet ==
    /\ pc = "net"
    /\ net' = TheNet
    /\ pc' = "cell"
    /\ UNCHANGED <<LOADING, fsVars, graph, params, losses, counted, loopVars,
                   input_dict, sim_data, plotted, calls, lastTrain, trainedRep,
                   failedAt, runNo, history>>

\* faulty variant of CellStart: the flag tested the wrong way round
CellStart_inverted ==
    /\ pc = "cell"
    /\ losses' = <<>>
    /\ counted' = 0
    /\ graph' = BuildGraph(net)
    /\ params' = [train |-> 0, loaded |-> FALSE]
    /\ sim_data' = <<>>
    /\ e' = 0
    /\ pc' = IF ~LOADING THEN "load_loss" ELSE "for_e"
    /\ UNCHANGED <<LOADING, fsVars, net, i, input_dict, plotted, calls,
                   lastTrain, trainedRep, failedAt, runNo, history>>

\* first lines of the training cell and the Simulator it opens
CellStart ==
    /\ pc = "cell"
    /\ losses' = <<>>
    /\ counted' = 0
    /\ graph' = BuildGraph(net)
    /\ params' = [train |-> 0, loaded |-> FALSE]
    /\ sim_data' = <<>>
    /\ e' = 0
    /\ pc' = IF LOADING THEN "load_loss" ELSE "for_e"
    /\ UNCHANGED <<LOADING, fsVars, net, i, input_dict, plotted, calls,
                   lastTrain, trainedRep, failedAt, runNo, history>>

\* LOADING branch: gen_data and the first loss
LoadLoss ==
    /\ pc = "load_loss"
    /\ input_dict' = gen_data(steps, n_examples, 0)
    /\ losses' = Append(losses, sim_loss(input_dict'))
    /\ calls' = Called("loss")
    /\ pc' = "load_run"
    /\ UNCHANGED <<LOADING, fsVars, net, graph, params, counted, loopVars,
                   sim_data, plotted, lastTrain, trainedRep, failedAt, runNo,
                   history>>

LoadRun ==
    /\ pc = "load_run"
    /\ sim_data' = Append(sim_data, sim_run)
    /\ calls' = Called("run")
    /\ pc' = "mkdir"
    /\ UNCHANGED <<LOADING, fsVars, net, graph, params, losses, counted,
                   loopVars, input_dict, plotted, lastTrain, trainedRep,
                   failedAt, runNo, history>>

\* if not os.path.exists("nengo_autoencoder"): os.mkdir("nengo_autoencoder")
\* os.path.exists is true of a path of any kind
MkDir ==
    /\ pc = "mkdir"
    /\ IF dirNode = "absent"
       THEN dirNode' = "dir" /\ calls' = Called("mkdir")
       ELSE UNCHANGED <<dirNode, calls>>
    /\ pc' = "check_index"
    /\ UNCHANGED <<LOADING, indexFile, zipFile, net, graph, params, losses,
                   counted, loopVars, input_dict, sim_data, plotted, lastTrain,
                   trainedRep, failedAt, runNo, history>>

\* if not os.path.exists(param_path + ".index")
CheckIndex ==
    /\ pc = "check_index"
    /\ pc' = IF ~indexFile THEN "urlretrieve" ELSE "load_params"
    /\ UNCHANGED <<LOADING, fsVars, net, graph, params, losses, counted,
                   loopVars, input_dict, sim_data, plotted, calls, lastTrain,
                   trainedRep, failedAt, runNo, history>>

\* urlretrieve(url, param_zip_path) returns: the zip is written, which needs
\* the directory it is written into
UrlRetrieveOk ==
    /\ pc = "urlretrieve"
    /\ dirNode = "dir"
    /\ zipFile' = TRUE
    /\ calls' = Called("urlretrieve")
    /\ pc' = "extract"
    /\ UNCHANGED <<LOADING, dirNode, indexFile, net, graph, params, losses,
                   counted, loopVars, input_dict, sim_data, plotted, lastTrain,
                   trainedRep, failedAt, runNo, history>>

\* faulty variant of UrlRetrieveFail: the exception is caught and the cell
\* goes on to load the parameters
UrlRetrieveFail_caught ==
    /\ pc = "urlretrieve"
    /\ zipFile' \in IF dirNode = "dir" THEN {zipFile, TRUE} ELSE {zipFile}
    /\ calls' = Called("urlretrieve")
    /\ failedAt' = "urlretrieve"
    /\ pc' = "load_params"
    /\ UNCHANGED <<LOADING, dirNode, indexFile, net, graph, params, losses,
                   counted, loopVars, input_dict, sim_data, plotted, lastTrain,
                   trainedRep, runNo, history>>

\* urlretrieve raises (no network, or the target cannot be written); a
\* transfer that breaks off may leave a part of the zip behind
UrlRetrieveFail ==
    /\ pc = "urlretrieve"
    /\ zipFile' \in IF dirNode = "dir" THEN {zipFile, TRUE} ELSE {zipFile}
    /\ calls' = Called("urlretrieve")
    /\ failedAt' = "urlretrieve"
    /\ pc' = "failed"
    /\ UNCHANGED <<LOADING, dirNode, indexFile, net, graph, params, losses,
                   counted, loopVars, input_dict, sim_data, plotted, lastTrain,
                   trainedRep, runNo, history>>

\* with zipfile.ZipFile(param_zip_path) as f: f.extractall("nengo_autoencoder")
\* the archive holds the checkpoint that load_params(param_path) reads
ExtractOk ==
    /\ pc = "extract"
    /\ indexFile' = TRUE
    /\ calls' = Called("extractall")
    /\ pc' = "remove"
    /\ UNCHANGED <<LOADING, dirNode, zipFile, net, graph, params, losses,
                   counted, loopVars, input_dict, sim_data, plotted, lastTrain,
                   trainedRep, failedAt, runNo, history>>

\* the extraction raises; members extracted before the failure stay
ExtractFail ==
    /\ pc = "extract"
    /\ indexFile' \in BOOLEAN
    /\ calls' = Called("extractall")
    /\ failedAt' = "extractall"
    /\ pc' = "failed"
    /\ UNCHANGED <<LOADING, dirNode, zipFile, net, graph, params, losses,
                   counted, loopVars, input_dict, sim_data, plotted, lastTrain,
                   trainedRep, runNo, history>>

\* os.remove(param_zip_path)
Remove ==
    /\ pc = "remove"
    /\ zipFile' = FALSE
    /\ calls' = Called("remove")
    /\ pc' = "load_params"
    /\ UNCHANGED <<LOADING, dirNode, indexFile, net, graph, params, losses,
                   counted, loopVars, input_dict, sim_data, plotted, lastTrain,
                   trainedRep, failedAt, runNo, history>>

\* sim.load_params(param_path)
LoadParams ==
    /\ pc = "load_params"
    /\ params' = [params EXCEPT !.loaded = TRUE]
    /\ calls' = Called("load_params")
    /\ pc' = "final_loss"
    /\ UNCHANGED <<LOADING, fsVars, net, graph, losses, counted, loopVars,
                   input_dict, sim_data, plotted, lastTrain, trainedRep,
                   failedAt, runNo, history>>

\* for e in range(repetitions): gen_data, loss (the delta lines only print)
RepLoss ==
    /\ pc = "for_e"
    /\ e < repetitions
    /\ input_dict' = gen_data(steps, n_examples, 0)
    /\ losses' = Append(losses, sim_loss(input_dict'))
    /\ calls' = Called("loss")
    /\ trainedRep' = {}
    /\ pc' = "rep_run"
    /\ UNCHANGED <<LOADING, fsVars, net, graph, params, counted, loopVars,
                   sim_data, plotted, lastTrain, failedAt, runNo, history>>

\* faulty variant of RepRun: the inner loop starts at 1
RepRun_from1 ==
    /\ pc = "rep_run"
    /\ sim_data' = Append(sim_data, sim_run)
    /\ calls' = Called("run")
    /\ counted' = counted + 1
    /\ i' = 1
    /\ pc' = "for_i"
    /\ UNCHANGED <<LOADING, fsVars, net, graph, params, losses, e, input_dict,
                   plotted, lastTrain, trainedRep, failedAt, runNo, history>>

\* sim.run(0.001*steps); counted = counted + 1
RepRun ==
    /\ pc = "rep_run"
    /\ sim_data' = Append(sim_data, sim_run)
    /\ calls' = Called("run")
    /\ counted' = counted + 1
    /\ i' = 0
    /\ pc' = "for_i"
    /\ UNCHANGED <<LOADING, fsVars, net, graph, params, losses, e, input_dict,
                   plotted, lastTrain, trainedRep, failedAt, runNo, history>>

\* for i in range(n_iters): gen_data and sim.train (the timing lines only print)
TrainIter ==
    /\ pc = "for_i"
    /\ i < n_iters
    /\ input_dict' = gen_data(steps, n_examples, n_examples * i)
    /\ params' = [params EXCEPT !.train = @ + 1]
    /\ calls' = Called("train")
    /\ lastTrain' = [e |-> e, i |-> i, batch |-> input_dict', before |-> trainedRep]
    /\ trainedRep' = AddBatch(trainedRep, Images(input_dict'))
    /\ i' = i + 1
    /\ UNCHANGED <<LOADING, pc, fsVars, net, graph, losses, counted, e,
                   sim_data, plotted, failedAt, runNo, history>>

\* the inner loop is exhausted: next repetition
RepEnd ==
    /\ pc = "for_i"
    /\ i = n_iters
    /\ e' = e + 1
    /\ pc' = "for_e"
    /\ UNCHANGED <<LOADING, fsVars, net, graph, params, losses, counted, i,
                   input_dict, sim_data, plotted, calls, lastTrain, trainedRep,
                   failedAt, runNo, history>>

\* the outer loop is exhausted
LoopDone ==
    /\ pc = "for_e"
    /\ e = repetitions
    /\ pc' = "final_loss"
    /\ UNCHANGED <<LOADING, fsVars, net, graph, params, losses, counted,
                   loopVars, input_dict, sim_data, plotted, calls, lastTrain,
                   trainedRep, failedAt, runNo, history>>

\* losses.append(sim.loss(input_dict, output_dict, 'mse')) after the branch
FinalLoss ==
    /\ pc = "final_loss"
    /\ losses' = Append(losses, sim_loss(input_dict))
    /\ calls' = Called("loss")
    /\ pc' = "final_run"
    /\ UNCHANGED <<LOADING, fsVars, net, graph, params, counted, loopVars,
                   input_dict, sim_data, plotted, lastTrain, trainedRep,
                   failedAt, runNo, history>>

\* number of rows of sim.data[probe][0]
Rows(data) == steps * Len(data)

\* faulty variant of FinalRun: the run after the last loss is left out
FinalRun_norun ==
    /\ pc = "final_run"
    /\ counted' = counted + 1
    /\ pc' = "plot"
    /\ UNCHANGED <<LOADING, fsVars, net, graph, params, losses, loopVars,
                   input_dict, sim_data, plotted, calls, lastTrain, trainedRep,
                   failedAt, runNo, history>>

\* sim.run(0.001*steps); counted = counted + 1
FinalRun ==
    /\ pc = "final_run"
    /\ sim_data' = Append(sim_data, sim_run)
    /\ calls' = Called("run")
    /\ counted' = counted + 1
    /\ pc' = "plot"
    /\ UNCHANGED <<LOADING, fsVars, net, graph, params, losses, loopVars,
                   input_dict, plotted, lastTrain, trainedRep, failedAt, runNo,
                   history>>

\* the plot cell: column c shows row c*steps+steps-1 of the probe data; a
\* row the data does not have raises IndexError
Plot ==
    /\ pc = "plot"
    /\ LET row == [c \in 1..Len(losses) |-> (c - 1) * steps + steps - 1]
       IN  IF \A c \in 1..Len(losses) : row[c] < Rows(sim_data)
           THEN plotted' = row /\ pc' = "done" /\ UNCHANGED failedAt
           ELSE plotted' = <<>> /\ pc' = "failed" /\ failedAt' = "plot"
    /\ UNCHANGED <<LOADING, fsVars, net, graph, params, losses, counted,
                   loopVars, input_dict, sim_data, calls, lastTrain, trainedRep,
                   runNo, history>>

\* what a run of the training cell leaves for the history
Summary ==
    [LOADING |-> LOADING, outcome |-> pc, failedAt |-> failedAt,
     urlretrieve |-> calls.urlretrieve]

\* the user sets LOADING and runs the training cell (and the plot cell) again
Rerun ==
    /\ pc \in {"done", "failed"}
    /\ runNo < MaxRuns
    /\ runNo' = runNo + 1
    /\ history' = Append(history, Summary)
    /\ LOADING' \in BOOLEAN
    /\ pc' = "cell"
    /\ i' = 0
    /\ input_dict' = NoBatch
    /\ plotted' = <<>>
    /\ calls' = NoCalls
    /\ lastTrain' = NoTrain
    /\ trainedRep' = {}
    /\ failedAt' = "none"
    /\ UNCHANGED <<fsVars, net, graph, params, losses, counted, e, sim_data>>

\* one execution of the notebook: its cells from top to bottom
Run ==
    \/ BuildNet
    \/ CellStart
    \/ LoadLoss
    \/ LoadRun
    \/ MkDir
    \/ CheckIndex
    \/ UrlRetrieveOk
    \/ UrlRetrieveFail
    \/ ExtractOk
    \/ ExtractFail
    \/ Remove
    \/ LoadParams
    \/ RepLoss
    \/ RepRun
    \/ TrainIter
    \/ RepEnd
    \/ LoopDone
    \/ FinalLoss
    \/ FinalRun
    \/ Plot

Next == Run \/ Rerun

\* the notebook with the training cell run up to MaxRuns times
Spec == Init /\ [][Next]_vars

\* the notebook executed once
SpecRun == Init /\ [][Run]_vars

\* ==================================================================== claims
\* the cell has got past its first lines in this run
InRun == pc \notin {"net", "cell"}

\* the branch of the training cell has been left in this run
AfterBranch == pc \in {"final_run", "plot", "done"}

\* the summaries of all runs of the training cell: the earlier ones and this one
AllRuns == Append(history, Summary)

\* C1: LOADING selects one of two exclusive paths.  In a run with LOADING set
\* sim.train is never called and load_params at most once, every loss is
\* evaluated on gen_data(steps, n_examples, 0), and a run that completes has
\* called load_params exactly once and evaluated the loss exactly twice, the
\* first time with the parameters as built and the second time with the
\* loaded ones.  In a run with LOADING unset urlretrieve, the extraction and
\* load_params are never called.
C1_LoadingPaths ==
    /\ (LOADING /\ InRun) =>
          /\ calls.train = 0
          /\ calls.load_params <= 1
          /\ calls.loss = Len(losses) /\ Len(losses) <= 2
          /\ \A k \in 1..Len(losses) :
                losses[k].batch = [j \in 0..(n_examples - 1) |-> {j}]
    /\ (LOADING /\ pc = "done") =>
          /\ calls.load_params = 1
          /\ Len(losses) = 2
          /\ losses[1].params = [train |-> 0, loaded |-> FALSE]
          /\ losses[2].params = [train |-> 0, loaded |-> TRUE]
    /\ ~LOADING =>
          /\ calls.urlretrieve = 0
          /\ calls.extractall = 0
          /\ calls.load_params = 0

\* a completed LOADING run that downloaded the parameters
C1_Witness ==
    /\ LOADING /\ pc = "done"
    /\ calls.urlretrieve = 1 /\ calls.load_params = 1 /\ Len(losses) = 2

\* C2: with LOADING unset, the k-th call of sim.train (k = 1, 2, ...) is the
\* one of the k-th pair (e, i) in lexicographic order, e in 0..14 and i in
\* 0..858; the k-th entry of losses is evaluated after exactly (k-1)*n_iters
\* calls of sim.train; once the loops are left sim.train has been called
\* 15 * 859 times and losses has repetitions + 1 entries; and such a run
\* stops nowhere but at the end of the plot cell.
C2_TrainingSchedule ==
    ~LOADING =>
      /\ repetitions * n_iters = 15 * 859
      /\ InRun => calls.train = params.train
      /\ calls.train > 0 =>
            /\ lastTrain.e \in 0..(repetitions - 1)
            /\ lastTrain.i \in 0..(n_iters - 1)
            /\ calls.train = lastTrain.e * n_iters + lastTrain.i + 1
      /\ InRun => \A k \in 1..Len(losses) :
                     losses[k].params.train = (k - 1) * n_iters
      /\ AfterBranch =>
            /\ calls.train = repetitions * n_iters
            /\ Len(losses) = repetitions + 1
            /\ losses[1].params.train = 0
            /\ losses[repetitions + 1].params.train = repetitions * n_iters
      /\ (pc = "done" \/ ENABLED Run)

\* a completed training run
C2_Witness ==
    /\ ~LOADING /\ pc = "done"
    /\ calls.train = repetitions * n_iters
    /\ lastTrain.e = repetitions - 1 /\ lastTrain.i = n_iters - 1

\* C3: the batch passed to sim.train in iteration i holds exactly the images
\* 64*i .. 64*i+63, one per element of the batch; none of them was in a batch
\* of an earlier iteration of the same repetition (these batches being the
\* images below 64*i); and every index is below the 55000 images of the
\* training set.
C3_Batches ==
    calls.train > 0 =>
      LET it == lastTrain.i
          B == Images(lastTrain.batch)
      IN  /\ n_iters = 859
          /\ DOMAIN lastTrain.batch = 0..63
          /\ \A k \in DOMAIN lastTrain.batch : lastTrain.batch[k] = {64 * it + k}
          /\ B = (64 * it)..(64 * it + 63)
          /\ lastTrain.before = IF it = 0 THEN {} ELSE {<<0, 64 * it - 1>>}
          /\ \A x \in B : ~InTrained(x, lastTrain.before) /\ 0 <= x /\ x < 55000

\* the last batch of a repetition that is not the first one
C3_Witness ==
    /\ calls.train > 0
    /\ lastTrain.e = 1 /\ lastTrain.i = n_iters - 1
    /\ (TrainSize - 25) \in Images(lastTrain.batch)

\* a repetition has made all its training iterations
RepetitionOver == ~LOADING /\ pc = "for_i" /\ i = n_iters

C5_Architecture ==
    InRun =>
      /\ graph.tf_encode.layers =
            <<[size_in |-> 784, size_out |-> 256], [size_in |-> 256, size_out |-> 128]>>
      /\ graph.tf_decode.layers =
            <<[size_in |-> 128, size_out |-> 256], [size_in |-> 256, size_out |-> 784]>>
      /\ \A nd \in {"tf_encode", "tf_decode"} :
            /\ Len(graph[nd].layers) = 2
            /\ graph[nd].layers[1].size_in = net.nodes[nd].size_in
            /\ graph[nd].layers[2].size_in = graph[nd].layers[1].size_out
            /\ graph[nd].out = net.nodes[nd].size_out
      /\ \A c \in net.connections :
            net.nodes[c[1]].size_out = net.nodes[c[2]].size_in
      /\ net.nodes.tf_decode.size_out = n_input
      /\ n_input = ImageWidth

\* the Simulator has been built
C5_Witness ==
    /\ pc = "load_loss"
    /\ Len(graph.tf_encode.layers) = 2 /\ Len(graph.tf_decode.layers) = 2

\* number of completed runs in which urlretrieve was called
DownloadRuns ==
    Cardinality({r \in 1..Len(AllRuns) :
                    AllRuns[r].outcome = "done" /\ AllRuns[r].urlretrieve > 0})

\* C6 as claimed: from any state of the file system, urlretrieve is called in
\* at most one of the runs that complete; when urlretrieve is about to be
\* called, nengo_autoencoder is a directory; once the archive is extracted
\* the zip is gone; and load_params is called only when the .index file
\* exists.
C6_OneTimeDownload ==
    /\ DownloadRuns <= 1
    /\ pc = "urlretrieve" => dirNode = "dir"
    /\ (pc = "load_params" /\ calls.extractall > 0) => ~zipFile
    /\ pc = "load_params" => indexFile

\* the parts of C6 the code meets from every state of the file system: when
\* urlretrieve is about to be called the path nengo_autoencoder exists, as a
\* directory or as something else
C6_PathExists ==
    /\ DownloadRuns <= 1
    /\ pc = "urlretrieve" => dirNode # "absent"
    /\ (pc = "load_params" /\ calls.extractall > 0) => ~zipFile
    /\ pc = "load_params" => indexFile

\* C7: when the training cell is over, in both modes, as many sim.run calls
\* have completed as losses has entries (16 when training, 2 when loading);
\* so for every column c of the plot the row (c-1)*steps + steps - 1 is a row
\* of the probe data, it is the last row of the c-th run, and that run was
\* made when losses had c entries, with the parameters losses[c] was
\* evaluated with.  The plot cell reads these rows and raises nothing.
C7_PlotColumns ==
    /\ pc \in {"plot", "done"} =>
          /\ Len(sim_data) = Len(losses)
          /\ calls.run = Len(losses)
          /\ Len(losses) = IF LOADING THEN 2 ELSE 16
          /\ \A c \in 1..Len(losses) :
                LET row == (c - 1) * steps + steps - 1
                IN  /\ row < Rows(sim_data)
                    /\ row \div steps = c - 1
                    /\ row % steps = sim_data[c].rows - 1
                    /\ sim_data[c].after_losses = c
                    /\ sim_data[c].params = losses[c].params
    /\ pc = "done" =>
          plotted = [c \in 1..Len(losses) |-> (c - 1) * steps + steps - 1]
    /\ failedAt # "plot"

\* the plot of a completed training run
C7_Witness ==
    /\ ~LOADING /\ pc = "done"
    /\ Len(plotted) = repetitions + 1
    /\ plotted[repetitions + 1] = Rows(sim_data) - 1

\* C8: an exception of urlretrieve or of the extraction ends the run at that
\* step: for the rest of the run the cell stays stopped, load_params has not
\* been called, only the first loss and the first sim.run have been made and
\* os.remove has not been executed.  After a failed download the .index file
\* is absent, and a following LOADING run finds it absent and gets past the
\* check only through urlretrieve.
C8_NoErrorHandling ==
    /\ failedAt \in {"urlretrieve", "extractall"} =>
          /\ pc = "failed"
          /\ calls.load_params = 0 /\ ~params.loaded
          /\ calls.loss = 1 /\ Len(losses) = 1
          /\ calls.run = 1 /\ Len(sim_data) = 1
          /\ calls.remove = 0
          /\ plotted = <<>>
    /\ failedAt = "urlretrieve" => ~indexFile /\ calls.extractall = 0
    /\ failedAt = "extractall" => zipFile
    /\ (/\ Len(history) > 0
        /\ history[Len(history)].failedAt = "urlretrieve"
        /\ LOADING) =>
          /\ pc \in {"load_loss", "load_run", "mkdir", "check_index"} => ~indexFile
          /\ pc \in {"extract", "remove", "load_params", "final_loss",
                     "final_run", "plot", "done"} => calls.urlretrieve = 1

\* the run after a failed download has downloaded again
C8_Witness ==
    /\ Len(history) > 0
    /\ history[Len(history)].failedAt = "urlretrieve"
    /\ LOADING /\ pc = "extract" /\ calls.urlretrieve = 1
====
